---------------------------- MODULE Spec2Model ----------------------------
(***************************************************************************)
(* median and stdev of pyfunc/native_rust/src/lib.rs.                      *)
(*                                                                         *)
(* f64 is modelled as a binary floating-point format of the same shape as  *)
(* IEEE-754 double (signed zeros, subnormals, round-to-nearest ties-to-    *)
(* even, overflow to infinity, one NaN) with a narrow significand and      *)
(* exponent range.  A finite value is sign * m / Scale with m a natural    *)
(* number ("units"); m is representable when m = n * 2^e with              *)
(* n < 2^Precision and e \in 0..EMax.                                      *)
(***************************************************************************)
EXTENDS Integers, Sequences, FiniteSets

\* Width of the significand in bits (53 for f64).
Precision == 3
\* Largest exponent above the subnormal binade (2045 for f64).
EMax == 2
\* Number of fractional bits of the unit: the least positive value is
\* 2^-FracBits (1074 for f64).
FracBits == 1
\* Longest input sequence.
MaxLen == 4
\* Number of threads that call into the module.
NThreads == 2

RECURSIVE Pow2(_)
Pow2(n) == IF n = 0 THEN 1 ELSE 2 * Pow2(n - 1)

Scale == Pow2(FracBits)
MaxFiniteMag == (Pow2(Precision) - 1) * Pow2(EMax)

Abs(x) == IF x < 0 THEN -x ELSE x

---------------------------------------------------------------------------
(* f64 values *)

NaN == [k |-> "nan", s |-> 0, m |-> 0]
Inf(sign) == [k |-> "inf", s |-> sign, m |-> 0]
Fin(sign, mag) == [k |-> "fin", s |-> sign, m |-> mag]

IsNaN(a) == a.k = "nan"
IsFinite(a) == a.k = "fin"
IsZero(a) == a.k = "fin" /\ a.m = 0

\* The representable magnitudes, in units.
Mags == {n * Pow2(e) : n \in 0..(Pow2(Precision) - 1), e \in 0..EMax}

Floats == {NaN} \cup {Inf(sg) : sg \in {0, 1}}
          \cup {Fin(sg, g) : sg \in {0, 1}, g \in Mags}

\* The value of a non-NaN float in units, the infinities placed beyond
\* every finite value: the order of partial_cmp on non-NaN values.
Key(a) == IF a.k = "inf"
          THEN (IF a.s = 1 THEN -(MaxFiniteMag + 1) ELSE MaxFiniteMag + 1)
          ELSE (IF a.s = 1 THEN -a.m ELSE a.m)

\* The exponent of the binade that holds num/den (0 for subnormals).
RECURSIVE ExpOf(_, _, _)
ExpOf(num, den, e) ==
    IF e = EMax \/ num < Pow2(Precision + e) * den
    THEN e
    ELSE ExpOf(num, den, e + 1)

\* num/den >= 0 rounded to the nearest representable magnitude, ties to the
\* even significand; beyond the largest finite value the result is infinite.
RoundMag(sign, num, den) ==
    LET ulp == Pow2(ExpOf(num, den, 0))
        d   == den * ulp
        n   == num \div d
        r   == num - n * d
        up  == (2 * r > d) \/ (2 * r = d /\ n % 2 = 1)
        mag == (IF up THEN n + 1 ELSE n) * ulp
    IN  IF mag > MaxFiniteMag THEN Inf(sign) ELSE Fin(sign, mag)

Xor(s1, s2) == IF s1 = s2 THEN 0 ELSE 1

FNeg(a) == IF IsNaN(a) THEN NaN ELSE [a EXCEPT !.s = 1 - a.s]

\* a + b
FAdd(a, b) ==
    IF IsNaN(a) \/ IsNaN(b) THEN NaN
    ELSE IF a.k = "inf" THEN (IF b.k = "inf" /\ b.s # a.s THEN NaN ELSE a)
    ELSE IF b.k = "inf" THEN b
    ELSE LET v == Key(a) + Key(b)
         IN  IF v = 0
             THEN Fin(IF a.s = 1 /\ b.s = 1 THEN 1 ELSE 0, 0)
             ELSE RoundMag(IF v < 0 THEN 1 ELSE 0, Abs(v), 1)

\* a - b
FSub(a, b) == FAdd(a, FNeg(b))

\* a * b
FMul(a, b) ==
    IF IsNaN(a) \/ IsNaN(b) THEN NaN
    ELSE IF a.k = "inf" \/ b.k = "inf"
         THEN (IF IsZero(a) \/ IsZero(b) THEN NaN ELSE Inf(Xor(a.s, b.s)))
    ELSE RoundMag(Xor(a.s, b.s), a.m * b.m, Scale)

\* a / b
FDiv(a, b) ==
    IF IsNaN(a) \/ IsNaN(b) THEN NaN
    ELSE IF a.k = "inf" THEN (IF b.k = "inf" THEN NaN ELSE Inf(Xor(a.s, b.s)))
    ELSE IF b.k = "inf" THEN Fin(Xor(a.s, b.s), 0)
    ELSE IF b.m = 0 THEN (IF a.m = 0 THEN NaN ELSE Inf(Xor(a.s, b.s)))
    ELSE RoundMag(Xor(a.s, b.s), a.m * Scale, b.m)

\* Whether the significand of representable magnitude g is even.
EvenMant(g) == (g \div Pow2(ExpOf(g, 1, 0))) % 2 = 0

\* The representable magnitude nearest to the square root of x units^2.
SqrtMag(x) ==
    LET lo == CHOOSE g \in Mags :
                  /\ g * g <= x
                  /\ \A h \in Mags : h * h <= x => h <= g
        above == {g \in Mags : g > lo}
    IN  IF above = {} THEN lo
        ELSE LET hi == CHOOSE g \in above : \A h \in above : g <= h
                 mid2 == (lo + hi) * (lo + hi)
             IN  IF 4 * x < mid2 THEN lo
                 ELSE IF 4 * x > mid2 THEN hi
                 ELSE IF EvenMant(lo) THEN lo ELSE hi

\* a.sqrt()
FSqrt(a) ==
    IF IsNaN(a) THEN NaN
    ELSE IF IsZero(a) THEN a
    ELSE IF a.s = 1 THEN NaN
    ELSE IF a.k = "inf" THEN a
    ELSE Fin(0, SqrtMag(a.m * Scale))

\* n as f64
FromUsize(n) == RoundMag(0, n * Scale, 1)

\* The literal 2.0
Two == Fin(0, 2 * Scale)

\* a.partial_cmp(b)
PartialCmp(a, b) ==
    IF IsNaN(a) \/ IsNaN(b) THEN "None"
    ELSE IF Key(a) < Key(b) THEN "Less"
    ELSE IF Key(a) > Key(b) THEN "Greater"
    ELSE "Equal"

---------------------------------------------------------------------------
(* Outcomes of a call *)

\* Placeholder for the value of an outcome that carries none.
NoVal == [k |-> "none", s |-> 0, m |-> 0]

\* Ok(v)
Ok(v) == [kind |-> "Ok", val |-> v, exc |-> "", msg |-> ""]
\* Err(PyValueError::new_err(msg))
ValueError(text) == [kind |-> "Err", val |-> NoVal, exc |-> "ValueError", msg |-> text]
\* A panic unwinding out of the function: no value and no PyResult.
Panic == [kind |-> "Panic", val |-> NoVal, exc |-> "", msg |-> ""]
\* No outcome yet.
Pending == [kind |-> "Pending", val |-> NoVal, exc |-> "", msg |-> ""]

MedianEmptyMsg == "median() arg is an empty sequence"
StdevTooFewMsg == "stdev() requires at least two data points"

---------------------------------------------------------------------------
(* median *)

\* Mutant: the emptiness check is lost.
IsEmptyNever(data) == FALSE

\* data.is_empty()
IsEmpty(data) == Len(data) = 0

\* Mutant: a total order with NaN above every number (total_cmp), which
\* never fails.
CompareTotal(a, b) ==
    IF IsNaN(a) /\ IsNaN(b) THEN "Equal"
    ELSE IF IsNaN(a) THEN "Greater"
    ELSE IF IsNaN(b) THEN "Less"
    ELSE PartialCmp(a, b)

\* The closure of sort_by, |a, b| a.partial_cmp(b).unwrap(): its ordering,
\* or "None" where the unwrap panics.
Compare(a, b) == PartialCmp(a, b)

\* Where x goes among the sorted v[1..j]: the insertion loop compares x with
\* v[j], v[j-1], ... while x is less; -1 when a comparison panics.
RECURSIVE InsertPos(_, _, _)
InsertPos(v, x, j) ==
    IF j = 0 THEN 0
    ELSE LET c == Compare(x, v[j])
         IN  IF c = "None" THEN -1
             ELSE IF c = "Less" THEN InsertPos(v, x, j - 1)
             ELSE j

\* Mutant: the pass compares but moves nothing, so the data stay unsorted.
InsertTailUnsorted(v, i) ==
    [panic |-> InsertPos(v, v[i], i - 1) = -1, v |-> v]

\* One pass of the stable insertion sort that sort_by runs on a short slice:
\* v[i] (1-based) is inserted into the sorted prefix v[1..i-1].
InsertTail(v, i) ==
    LET p == InsertPos(v, v[i], i - 1)
    IN  IF p = -1
        THEN [panic |-> TRUE, v |-> v]
        ELSE [panic |-> FALSE,
              v |-> [n \in 1..Len(v) |->
                        IF n <= p THEN v[n]
                        ELSE IF n = p + 1 THEN v[i]
                        ELSE IF n <= i THEN v[n - 1]
                        ELSE v[n]]]

\* data[idx] with idx counted from 0; out of bounds is a panic.
InBounds(data, idx) == idx >= 0 /\ idx < Len(data)
At(data, idx) == data[idx + 1]

\* Lines 12-17 on the sorted data.
MedianIndex(data) ==
    LET mid == Len(data) \div 2
    IN  IF Len(data) % 2 = 0
        THEN IF InBounds(data, mid - 1) /\ InBounds(data, mid)
             THEN Ok(FDiv(FAdd(At(data, mid - 1), At(data, mid)), Two))
             ELSE Panic
        ELSE IF InBounds(data, mid) THEN Ok(At(data, mid)) ELSE Panic

---------------------------------------------------------------------------
(* stdev *)

\* Mutant: the bound is off by one.
TooFewOffByOne(n) == n < 1

\* n < 2
TooFew(n) == n < 2

\* The start value of iter.sum::<f64>(): 0.0, or -0.0 in later toolchains.
SumInits == {Fin(0, 0), Fin(1, 0)}

\* iter.sum::<f64>(): a left fold of + from the start value.
RECURSIVE Sum(_, _)
Sum(xs, acc) == IF xs = <<>> THEN acc ELSE Sum(Tail(xs), FAdd(acc, Head(xs)))

\* data.iter().sum::<f64>() / n as f64
Mean(data, zero) == FDiv(Sum(data, zero), FromUsize(Len(data)))

\* Mutant: the one-pass formula, value^2 - mean^2 summed in place of the
\* squared deviation.
SqDevOnePass(mean, value) == FSub(FMul(value, value), FMul(mean, mean))

\* The closure of map: diff = mean - value; diff * diff.
SqDev(mean, value) == LET diff == FSub(mean, value) IN FMul(diff, diff)

\* data.iter().map(...).sum::<f64>() / n as f64
Variance(data, mean, zero) ==
    FDiv(Sum([n \in 1..Len(data) |-> SqDev(mean, data[n])], zero),
         FromUsize(Len(data)))

---------------------------------------------------------------------------
(* The functions run alone, from the steps above *)

\* data.sort_by(...): nothing is compared on a slice shorter than two.
RECURSIVE SortFrom(_, _)
SortFrom(v, i) ==
    IF i > Len(v) THEN [panic |-> FALSE, v |-> v]
    ELSE LET r == InsertTail(v, i)
         IN  IF r.panic THEN r ELSE SortFrom(r.v, i + 1)

SortBy(v) == SortFrom(v, 2)

\* median(data)
MedianOf(data) ==
    IF IsEmpty(data) THEN ValueError(MedianEmptyMsg)
    ELSE LET r == SortBy(data)
         IN  IF r.panic THEN Panic ELSE MedianIndex(r.v)

\* stdev(data), the two sums started from z1 and z2
StdevOf(data, z1, z2) ==
    IF TooFew(Len(data)) THEN ValueError(StdevTooFewMsg)
    ELSE Ok(FSqrt(Variance(data, Mean(data, z1), z2)))

---------------------------------------------------------------------------
(* Calls *)

Threads == 1..NThreads

\* Buffers: the callers' sequences, then one owned Vec<f64> per call.
CallerBufs == 1..NThreads
Bufs == 1..(2 * NThreads)

VARIABLES
    heap,      \* buffer -> its content
    orig,      \* caller buffer -> the content the caller put there
    fn,        \* thread -> "median" or "stdev"
    argOf,     \* thread -> the caller buffer it passes as data
    pc,        \* thread -> position in the function
    i,         \* thread -> next index of the sort (0-based)
    mean,      \* thread -> stdev's mean
    variance,  \* thread -> stdev's variance
    result     \* thread -> outcome of the call

vars == <<heap, orig, fn, argOf, pc, i, mean, variance, result>>

\* Mutant: the call works in place on the caller's sequence.
DataBufAliased(t) == argOf[t]

\* The buffer of the Vec<f64> that thread t's call owns.
DataBuf(t) == NThreads + t

\* The values the inputs are drawn from.
Samples ==
    { NaN, Inf(0), Inf(1), Fin(0, 0), Fin(1, 0),
      Fin(0, 1), Fin(0, Scale), Fin(0, 3 * Scale), Fin(1, 2 * Scale),
      Fin(0, MaxFiniteMag), Fin(1, MaxFiniteMag) }

SeqsUpTo(S, n) == UNION {[1..l -> S] : l \in 0..n}

Inputs == SeqsUpTo(Samples, MaxLen)

\* NaN-free values for the calls whose inputs are compared with all their
\* permutations.
PermSamples ==
    { Inf(0), Fin(0, 0), Fin(1, 0), Fin(0, 3 * Scale), Fin(1, 2 * Scale),
      Fin(0, MaxFiniteMag) }

PermInputs == SeqsUpTo(PermSamples, MaxLen)

\* The inputs of the concurrent calls.
ConcInputs ==
    { <<>>,
      <<Fin(0, 3 * Scale), Fin(0, Scale), Fin(1, 2 * Scale)>>,
      <<Fin(0, MaxFiniteMag), Fin(0, MaxFiniteMag)>>,
      <<Fin(0, Scale), NaN>> }

Fns == {"median", "stdev"}

InitLocals ==
    /\ i = [t \in Threads |-> 0]
    /\ mean = [t \in Threads |-> NoVal]
    /\ variance = [t \in Threads |-> NoVal]
    /\ result = [t \in Threads |-> Pending]

\* One call, made by thread 1 on a sequence of the set ins.
InitOne(ins) ==
    /\ \E xs \in ins :
          heap = [b \in Bufs |-> IF b = 1 THEN xs ELSE <<>>]
    /\ orig = [b \in CallerBufs |-> heap[b]]
    /\ fn \in [Threads -> Fns]
    /\ \A t \in Threads : t # 1 => fn[t] = "median"
    /\ argOf = [t \in Threads |-> t]
    /\ pc = [t \in Threads |-> IF t = 1 THEN "call" ELSE "off"]
    /\ InitLocals

Init == InitOne(Inputs)

InitPerm == InitOne(PermInputs)

\* Every thread makes one call; a thread passes its own sequence or shares
\* the sequence of thread 1.
InitConc ==
    /\ \E ins \in [CallerBufs -> ConcInputs] :
          heap = [b \in Bufs |-> IF b \in CallerBufs THEN ins[b] ELSE <<>>]
    /\ orig = [b \in CallerBufs |-> heap[b]]
    /\ fn \in [Threads -> Fns]
    /\ argOf \in {a \in [Threads -> CallerBufs] : \A t \in Threads : a[t] \in {1, t}}
    /\ pc = [t \in Threads |-> "call"]
    /\ InitLocals

data(t) == heap[DataBuf(t)]

\* Leaving the function: the outcome is set and the owned Vec is dropped.
Return(t, outcome) ==
    /\ result' = [result EXCEPT ![t] = outcome]
    /\ heap' = [heap EXCEPT ![DataBuf(t)] = <<>>]
    /\ pc' = [pc EXCEPT ![t] = "done"]

\* The binding extracts the argument into an owned Vec<f64> (lines 5, 21).
Call(t) ==
    /\ pc[t] = "call"
    /\ heap' = [heap EXCEPT ![DataBuf(t)] = heap[argOf[t]]]
    /\ pc' = [pc EXCEPT ![t] = IF fn[t] = "median" THEN "m_check" ELSE "s_check"]
    /\ UNCHANGED <<orig, fn, argOf, i, mean, variance, result>>

\* Lines 6-8.
MedianCheck(t) ==
    /\ pc[t] = "m_check"
    /\ IF IsEmpty(data(t))
       THEN /\ Return(t, ValueError(MedianEmptyMsg))
            /\ UNCHANGED i
       ELSE /\ pc' = [pc EXCEPT ![t] = "m_sort"]
            /\ i' = [i EXCEPT ![t] = 1]
            /\ UNCHANGED <<heap, result>>
    /\ UNCHANGED <<orig, fn, argOf, mean, variance>>

\* Line 10: one insertion of the sort, or its end.
MedianSort(t) ==
    /\ pc[t] = "m_sort"
    /\ IF i[t] >= Len(data(t))
       THEN /\ pc' = [pc EXCEPT ![t] = "m_index"]
            /\ UNCHANGED <<heap, i, result>>
       ELSE LET r == InsertTail(data(t), i[t] + 1)
            IN  IF r.panic
                THEN /\ Return(t, Panic)
                     /\ UNCHANGED i
                ELSE /\ heap' = [heap EXCEPT ![DataBuf(t)] = r.v]
                     /\ i' = [i EXCEPT ![t] = i[t] + 1]
                     /\ UNCHANGED <<pc, result>>
    /\ UNCHANGED <<orig, fn, argOf, mean, variance>>

\* Lines 12-17.
MedianResult(t) ==
    /\ pc[t] = "m_index"
    /\ Return(t, MedianIndex(data(t)))
    /\ UNCHANGED <<orig, fn, argOf, i, mean, variance>>

\* Lines 22-25.
StdevCheck(t) ==
    /\ pc[t] = "s_check"
    /\ IF TooFew(Len(data(t)))
       THEN Return(t, ValueError(StdevTooFewMsg))
       ELSE /\ pc' = [pc EXCEPT ![t] = "s_mean"]
            /\ UNCHANGED <<heap, result>>
    /\ UNCHANGED <<orig, fn, argOf, i, mean, variance>>

\* Line 27.
StdevMean(t) ==
    /\ pc[t] = "s_mean"
    /\ \E zero \in SumInits : mean' = [mean EXCEPT ![t] = Mean(data(t), zero)]
    /\ pc' = [pc EXCEPT ![t] = "s_variance"]
    /\ UNCHANGED <<heap, orig, fn, argOf, i, variance, result>>

\* Lines 28-31.
StdevVariance(t) ==
    /\ pc[t] = "s_variance"
    /\ \E zero \in SumInits :
          variance' = [variance EXCEPT ![t] = Variance(data(t), mean[t], zero)]
    /\ pc' = [pc EXCEPT ![t] = "s_sqrt"]
    /\ UNCHANGED <<heap, orig, fn, argOf, i, mean, result>>

\* Line 33.
StdevResult(t) ==
    /\ pc[t] = "s_sqrt"
    /\ Return(t, Ok(FSqrt(variance[t])))
    /\ UNCHANGED <<orig, fn, argOf, i, mean, variance>>

Next ==
    \E t \in Threads :
        \/ Call(t)
        \/ MedianCheck(t)
        \/ MedianSort(t)
        \/ MedianResult(t)
        \/ StdevCheck(t)
        \/ StdevMean(t)
        \/ StdevVariance(t)
        \/ StdevResult(t)

Spec == Init /\ [][Next]_vars

PermSpec == InitPerm /\ [][Next]_vars

ConcSpec == InitConc /\ [][Next]_vars

---------------------------------------------------------------------------
(* Vocabulary of the properties *)

\* The sequence the caller passed to thread t's call.
input(t) == orig[argOf[t]]

Done(t) == pc[t] = "done"
Calls(t, f) == pc[t] # "off" /\ fn[t] = f

HasNaN(xs) == \E n \in 1..Len(xs) : IsNaN(xs[n])
AllFinite(xs) == \A n \in 1..Len(xs) : IsFinite(xs[n])

\* Equal as numbers: NaN matches NaN, and -0.0 matches 0.0.
SameVal(a, b) ==
    IF IsNaN(a) \/ IsNaN(b) THEN IsNaN(a) /\ IsNaN(b)
    ELSE a.k = b.k /\ Key(a) = Key(b)

SameOutcome(o1, o2) ==
    /\ o1.kind = o2.kind
    /\ o1.exc = o2.exc
    /\ o1.msg = o2.msg
    /\ SameVal(o1.val, o2.val)

\* The element of rank k (from 0) in the ascending order of NaN-free xs.
OrderStat(xs, k) ==
    CHOOSE x \in {xs[n] : n \in 1..Len(xs)} :
        /\ Cardinality({n \in 1..Len(xs) : Key(xs[n]) < Key(x)}) <= k
        /\ Cardinality({n \in 1..Len(xs) : Key(xs[n]) <= Key(x)}) > k

\* The arithmetic mean of two non-NaN values, rounded once to the format.
MeanOfTwo(a, b) ==
    IF a.k = "inf" \/ b.k = "inf"
    THEN (IF a.k = "inf" /\ b.k = "inf" /\ a.s # b.s THEN NaN
          ELSE IF a.k = "inf" THEN a ELSE b)
    ELSE LET v == Key(a) + Key(b)
         IN  RoundMag(IF v < 0 THEN 1 ELSE 0, Abs(v), 2)

RECURSIVE SumKeys(_)
SumKeys(xs) == IF xs = <<>> THEN 0 ELSE Key(Head(xs)) + SumKeys(Tail(xs))

RECURSIVE SumSquares(_)
SumSquares(xs) ==
    IF xs = <<>> THEN 0 ELSE Key(Head(xs)) * Key(Head(xs)) + SumSquares(Tail(xs))

\* N^2 times the exact population variance of finite xs, in units^2.
ScaledVariance(xs) == Len(xs) * SumSquares(xs) - SumKeys(xs) * SumKeys(xs)

Perms(xs) ==
    {[n \in 1..Len(xs) |-> xs[f[n]]] :
        f \in {g \in [1..Len(xs) -> 1..Len(xs)] :
                  \A a, b \in 1..Len(xs) : a # b => g[a] # g[b]}}

\* What a call of f on xs returns when it runs alone.
Alone(f, xs) ==
    IF f = "median" THEN {MedianOf(xs)}
    ELSE {StdevOf(xs, z1, z2) : z1 \in SumInits, z2 \in SumInits}

---------------------------------------------------------------------------
(* C1 *)

\* C1: a call of median on an empty sequence never reaches the sort or the
\* index step and never has a number as its outcome; it ends in the
\* ValueError "median() arg is an empty sequence".
C1_EmptyMedianFails ==
    \A t \in Threads :
        (Calls(t, "median") /\ Len(input(t)) = 0) =>
            /\ pc[t] \in {"call", "m_check", "done"}
            /\ result[t] \in {Pending, ValueError(MedianEmptyMsg)}
            /\ Done(t) => result[t] = ValueError(MedianEmptyMsg)

C1_Witness ==
    \E t \in Threads :
        /\ Calls(t, "median") /\ Len(input(t)) = 0 /\ Done(t)
        /\ result[t].kind = "Err"

---------------------------------------------------------------------------
(* C2 *)

\* C2 as stated: a call of stdev on fewer than two elements ends in the
\* ValueError "stdev() requires at least two data points" and returns no
\* number; on two or more non-NaN values it returns a number (a float that
\* is not NaN) and no error.
C2_StdevNumberIfNoNaN ==
    \A t \in Threads :
        Calls(t, "stdev") =>
            /\ Len(input(t)) < 2 =>
                  (Done(t) => result[t] = ValueError(StdevTooFewMsg))
            /\ (Len(input(t)) >= 2 /\ ~HasNaN(input(t))) =>
                  (Done(t) => (result[t].kind = "Ok" /\ ~IsNaN(result[t].val)))

\* C2 amended: a call of stdev on fewer than two elements ends in that
\* ValueError, never reaches the sums and returns no number; on two or more
\* elements it returns Ok with a float and no error, a number (not NaN)
\* when all values are finite, and NaN when the values are non-NaN but
\* include an infinity.
C2_StdevNeedsTwo ==
    \A t \in Threads :
        Calls(t, "stdev") =>
            /\ Len(input(t)) < 2 =>
                  /\ result[t] \in {Pending, ValueError(StdevTooFewMsg)}
                  /\ pc[t] \in {"call", "s_check", "done"}
                  /\ Done(t) => result[t] = ValueError(StdevTooFewMsg)
            /\ Len(input(t)) >= 2 =>
                  /\ result[t].kind \in {"Pending", "Ok"}
                  /\ Done(t) =>
                        /\ result[t].kind = "Ok"
                        /\ result[t].val \in Floats
                        /\ AllFinite(input(t)) => ~IsNaN(result[t].val)
                        /\ (~HasNaN(input(t)) /\ ~AllFinite(input(t))) =>
                              IsNaN(result[t].val)

C2_Witness ==
    \E t \in Threads :
        /\ Calls(t, "stdev") /\ Len(input(t)) = 1 /\ Done(t)
        /\ result[t].kind = "Err"

---------------------------------------------------------------------------
(* C3 *)

\* C3: on a non-empty NaN-free sequence of N elements median returns the
\* element of rank floor(N/2) of the ascending order when N is odd, and the
\* arithmetic mean of the elements of ranks N/2 - 1 and N/2 when N is even.
C3_MedianIsCentral ==
    \A t \in Threads :
        (Calls(t, "median") /\ Done(t) /\ Len(input(t)) >= 1 /\ ~HasNaN(input(t))) =>
            LET N == Len(input(t))
            IN  /\ result[t].kind = "Ok"
                /\ IF N % 2 = 1
                   THEN SameVal(result[t].val, OrderStat(input(t), N \div 2))
                   ELSE SameVal(result[t].val,
                                MeanOfTwo(OrderStat(input(t), N \div 2 - 1),
                                          OrderStat(input(t), N \div 2)))

---------------------------------------------------------------------------
(* C4 *)

\* C4: on N >= 2 finite numbers stdev returns the population standard
\* deviation sigma, the square root of the mean squared deviation with
\* divisor N.  The result r is held to it only up to a factor of two and to
\* the grid of the format, far more than rounding in the last bits: r is
\* finite and non-negative, no float above r is at most sigma / 2, and no
\* float below r is at least 2 sigma.
C4_PopulationStdev ==
    \A t \in Threads :
        (Calls(t, "stdev") /\ Done(t) /\ Len(input(t)) >= 2 /\ AllFinite(input(t))) =>
            LET N  == Len(input(t))
                r  == result[t].val
                v2 == ScaledVariance(input(t))
            IN  /\ result[t].kind = "Ok"
                /\ IsFinite(r)
                /\ r.s = 0 \/ r.m = 0
                /\ \A g \in Mags : 4 * N * N * g * g <= v2 => g <= r.m
                /\ \A g \in Mags : N * N * g * g >= 4 * v2 => r.m <= g

---------------------------------------------------------------------------
(* C5 *)

\* C5: on a non-empty NaN-free sequence the outcome of median is the outcome
\* of median on every permutation of the sequence (equal as numbers).
C5_PermutationInvariant ==
    \A t \in Threads :
        (Calls(t, "median") /\ Done(t) /\ Len(input(t)) >= 1 /\ ~HasNaN(input(t))) =>
            /\ result[t].kind = "Ok"
            /\ \A p \in Perms(input(t)) : SameOutcome(MedianOf(p), result[t])

C5_Witness ==
    \E t \in Threads :
        /\ Calls(t, "median") /\ Done(t) /\ result[t].kind = "Ok"
        /\ Len(input(t)) >= 3
        /\ Key(input(t)[1]) > Key(input(t)[2])
        /\ Key(input(t)[2]) < Key(input(t)[3])
        /\ Key(input(t)[1]) # Key(input(t)[3])

---------------------------------------------------------------------------
(* C6 *)

\* C6: on a non-empty sequence of finite numbers the result of median lies
\* between the least and the greatest element, also when it is computed as
\* (a + b) / 2.
C6_MedianWithinRange ==
    \A t \in Threads :
        (Calls(t, "median") /\ Done(t) /\ Len(input(t)) >= 1 /\ AllFinite(input(t))) =>
            /\ result[t].kind = "Ok"
            /\ ~IsNaN(result[t].val)
            /\ \E n \in 1..Len(input(t)) : Key(input(t)[n]) <= Key(result[t].val)
            /\ \E n \in 1..Len(input(t)) : Key(result[t].val) <= Key(input(t)[n])

---------------------------------------------------------------------------
(* C7 *)

\* C7: on two or more finite numbers the variance that stdev passes to the
\* square root is never negative and never NaN, and the result is a
\* non-negative number, never NaN.
C7_StdevNonNegative ==
    \A t \in Threads :
        (Calls(t, "stdev") /\ Len(input(t)) >= 2 /\ AllFinite(input(t))) =>
            /\ pc[t] = "s_sqrt" =>
                  (~IsNaN(variance[t]) /\ Key(variance[t]) >= 0)
            /\ Done(t) =>
                  /\ result[t].kind = "Ok"
                  /\ ~IsNaN(result[t].val)
                  /\ Key(result[t].val) >= 0

C7_Witness ==
    \E t \in Threads :
        /\ Calls(t, "stdev") /\ Done(t) /\ AllFinite(input(t))
        /\ Len(input(t)) >= 3
        /\ \E a, b \in 1..Len(input(t)) : Key(input(t)[a]) # Key(input(t)[b])
        /\ IsFinite(result[t].val) /\ result[t].val.m > 0

---------------------------------------------------------------------------
(* C8 *)

\* C8: on a constant sequence of two or more copies of a finite value c the
\* computed mean is c and stdev returns exactly 0.
C8_ConstantStdevZero ==
    \A t \in Threads :
        (/\ Calls(t, "stdev") /\ Len(input(t)) >= 2 /\ AllFinite(input(t))
         /\ \A n \in 1..Len(input(t)) : input(t)[n] = input(t)[1]) =>
            /\ pc[t] \in {"s_variance", "s_sqrt"} => SameVal(mean[t], input(t)[1])
            /\ Done(t) => (result[t].kind = "Ok" /\ IsZero(result[t].val))

---------------------------------------------------------------------------
(* C9 *)

\* C9: no call changes a caller's sequence; the data a call works on are
\* the sequence its caller passed (for median, once the sort has begun, a
\* permutation of it), whatever the other calls do; and every call, however
\* the calls of the threads interleave, ends in the outcome it has when it
\* runs alone on the sequence its caller passed.
C9_CallsAreIsolated ==
    /\ \A b \in CallerBufs : heap[b] = orig[b]
    /\ \A t \in Threads :
          /\ pc[t] \in {"m_check", "s_check", "s_mean", "s_variance", "s_sqrt"} =>
                data(t) = input(t)
          /\ pc[t] \in {"m_sort", "m_index"} => data(t) \in Perms(input(t))
          /\ Done(t) => \E o \in Alone(fn[t], input(t)) : SameOutcome(result[t], o)

C9_Witness ==
    /\ \A t \in Threads : Done(t)
    /\ \E t, u \in Threads :
          /\ t # u /\ argOf[t] = argOf[u]
          /\ fn[t] = "median" /\ result[t].kind = "Ok"
          /\ Len(input(t)) >= 2
          /\ Key(input(t)[1]) > Key(input(t)[2])

---------------------------------------------------------------------------
(* C10 *)

\* C10 as stated: on every non-empty sequence that holds a NaN, of any
\* length from 1, median panics in the sort and returns no value.
C10_NaNAlwaysPanics ==
    \A t \in Threads :
        (Calls(t, "median") /\ Len(input(t)) >= 1 /\ HasNaN(input(t))) =>
            (Done(t) => result[t] = Panic)

\* C10 amended: on a sequence of two or more elements that holds a NaN,
\* median panics in the sort, never reaches the index step and returns no
\* value; on the one-element sequence [NaN] the sort compares nothing and
\* median returns Ok(NaN).
C10_NaNPanicsFromTwo ==
    \A t \in Threads :
        (Calls(t, "median") /\ HasNaN(input(t))) =>
            /\ Len(input(t)) >= 2 =>
                  /\ pc[t] # "m_index"
                  /\ result[t] \in {Pending, Panic}
                  /\ Done(t) => result[t] = Panic
            /\ Len(input(t)) = 1 =>
                  (Done(t) => result[t] = Ok(NaN))

C10_Witness ==
    \E t \in Threads :
        /\ Calls(t, "median") /\ Done(t) /\ result[t] = Panic
        /\ Len(input(t)) >= 3
        /\ ~IsNaN(input(t)[1]) /\ ~IsNaN(input(t)[2])
        /\ IsNaN(input(t)[Len(input(t))])

=============================================================================
